---- MODULE Spec2Model ----
(***************************************************************************)
(* The SpacetimeDB module of src/server/src/lib.rs: a multiplayer Game of  *)
(* Life.  The state is the four tables of the module; every reducer is one *)
(* action, run as one transaction: a reducer that panics leaves every      *)
(* table as it was.                                                        *)
(*                                                                         *)
(* A table is a set of rows: a row equal in every column to a stored row   *)
(* is not stored a second time.  alive_cells has no unique column, so rows *)
(* that share (x, y) and differ in player_id are stored side by side.      *)
(***************************************************************************)
EXTENDS Integers, Sequences, FiniteSets, TLC

VARIABLES
    config,         \* table config: rows [id, tick_interval_ms]
    tick_schedule,  \* table tick_schedule: rows [scheduled_id, scheduled_at]
    players,        \* table players: rows [id, identity, color_hex]
    players_seq,    \* the auto_inc sequence of players.id: the next value
    alive_cells,    \* table alive_cells: rows [x, y, player_id]
    ever_connected, \* history: the identities identity_connected has run for
    last            \* history: the last reducer call [op, sender, arg, ok]

vars == <<config, tick_schedule, players, players_seq, alive_cells,
          ever_connected, last>>

tables == <<config, tick_schedule, players, players_seq, alive_cells>>

-----------------------------------------------------------------------------
(* Bounds of the model. *)

MaxAddLen == 2          \* longest cells payload of one add call
MaxRows == 2            \* add is offered while alive_cells has fewer rows
MaxInitRows == 4        \* rows of a table drawn by InitTick
MaxTickRows == 7        \* tick is offered while alive_cells has no more rows

-----------------------------------------------------------------------------
(* Constants of the program. *)

MARGIN == 5
FIELD_W == 192
FIELD_H == 108
MIN_X == -MARGIN
MIN_Y == -MARGIN
MAX_X == FIELD_W + MARGIN
MAX_Y == FIELD_H + MARGIN

I32_MAX == 2147483647
I32_MIN == -I32_MAX - 1

DEFAULT_TICK_INTERVAL_MS == 500
MICROS_PER_MS == 1000
FIRST_AUTO_INC == 1

-----------------------------------------------------------------------------
(* u32 and i64 values, kept as little-endian base-2^16 digits so that the  *)
(* 32-bit product of update_tick_interval is computed at its width.        *)

LIMB == 2 ^ 16

\* a u32 below 2^31 from its value
ToU32(n) == <<n % LIMB, n \div LIMB>>

U32_MAX == <<LIMB - 1, LIMB - 1>>

\* ms * 1000 over the naturals, three digits (it is below 2^48)
MulExact(ms, k) ==
    LET p0 == ms[1] * k
        p1 == ms[2] * k + (p0 \div LIMB)
    IN <<p0 % LIMB, p1 % LIMB, p1 \div LIMB>>

\* `interval_ms * 1000` in u32 arithmetic leaves the range
MulOverflows(ms, k) == MulExact(ms, k)[3] # 0

\* `(interval_ms * 1000) as i64` with wrapping u32 multiplication
MulWrapAsI64(ms, k) == <<MulExact(ms, k)[1], MulExact(ms, k)[2], 0>>

\* ScheduleAt::Interval(TimeDuration::from_micros(us))
Interval(us) == [kind |-> "Interval", micros |-> us]

-----------------------------------------------------------------------------
(* Inputs. *)

\* the connection identities, in the order InitTick connects them, and
\* those that call reducers under Spec
Identities == <<"alice", "bob", "carol">>
Callers == {"alice", "bob"}

DEFAULT_COLOR == "#FFFFFF"
ColorInputs == {"#00FF00", "#FFFFFF"}

\* interval_ms: the largest value whose product fits u32 and the smallest
\* whose product does not
IntervalInputs == {ToU32(4294967), ToU32(4294968)}

Cell(x, y) == [x |-> x, y |-> y]
AliveCell(x, y, p) == [x |-> x, y |-> y, player_id |-> p]

\* coordinates a client sends to add: one inside the field, and one far
\* outside it, at the end of i32
AddCoords == {Cell(0, 0), Cell(I32_MAX, 0)}

RECURSIVE SeqsUpTo(_, _)
SeqsUpTo(S, n) ==
    IF n = 0 THEN {<<>>}
    ELSE LET shorter == SeqsUpTo(S, n - 1)
         IN shorter \cup {Append(s, e) : s \in shorter, e \in S}

CellLists == SeqsUpTo(AddCoords, MaxAddLen)

-----------------------------------------------------------------------------
(* Table access. *)

\* players().identity().find(sender): the rows with that identity
FindPlayer(sender) == {p \in players : p.identity = sender}

\* alive_cells().coordinates().filter((x, y))
RowsAt(t, c) == {r \in t : r.x = c.x /\ r.y = c.y}

\* alive_cells().coordinates().delete((x, y)): every row of the coordinate
DeleteAt(t, c) == t \ RowsAt(t, c)

Coords(t) == {Cell(r.x, r.y) : r \in t}

-----------------------------------------------------------------------------
(* The reducers other than tick. *)

NoSender == "host"

Call(op, sender, arg, ok) == [op |-> op, sender |-> sender, arg |-> arg, ok |-> ok]

\* the transaction of a reducer that panicked is rolled back
Abort(op, sender, arg) ==
    /\ last' = Call(op, sender, arg, FALSE)
    /\ UNCHANGED <<tables, ever_connected>>

\* init: one config row and one schedule row
Init ==
    /\ config = {[id |-> 0, tick_interval_ms |-> ToU32(DEFAULT_TICK_INTERVAL_MS)]}
    /\ tick_schedule =
         {[scheduled_id |-> 0,
           scheduled_at |-> Interval(MulWrapAsI64(ToU32(DEFAULT_TICK_INTERVAL_MS),
                                                  MICROS_PER_MS))]}
    /\ players = {}
    /\ players_seq = FIRST_AUTO_INC
    /\ alive_cells = {}
    /\ ever_connected = {}
    /\ last = Call("init", NoSender, <<>>, TRUE)

\* players().insert(Player { id: 0, .. }): auto_inc replaces the 0 by the
\* next value of the sequence
InsertPlayer(sender) ==
    /\ players' = players \cup
         {[id |-> players_seq, identity |-> sender, color_hex |-> DEFAULT_COLOR]}
    /\ players_seq' = players_seq + 1

\* identity_connected without the lookup: a fresh row at every connect
identity_connected_Reset(sender) ==
    /\ players' = {p \in players : p.identity # sender} \cup
         {[id |-> players_seq, identity |-> sender, color_hex |-> DEFAULT_COLOR]}
    /\ players_seq' = players_seq + 1
    /\ ever_connected' = ever_connected \cup {sender}
    /\ last' = Call("identity_connected", sender, <<>>, TRUE)
    /\ UNCHANGED <<config, tick_schedule, alive_cells>>

identity_connected(sender) ==
    /\ IF FindPlayer(sender) = {}
       THEN InsertPlayer(sender)
       ELSE UNCHANGED <<players, players_seq>>
    /\ ever_connected' = ever_connected \cup {sender}
    /\ last' = Call("identity_connected", sender, <<>>, TRUE)
    /\ UNCHANGED <<config, tick_schedule, alive_cells>>

identity_disconnected(sender) ==
    /\ last' = Call("identity_disconnected", sender, <<>>, TRUE)
    /\ UNCHANGED <<tables, ever_connected>>

\* the loop of add: one insert per element, in list order
RECURSIVE InsertCells(_, _, _)
InsertCells(t, cells, player_id) ==
    IF cells = <<>> THEN t
    ELSE InsertCells(t \cup {AliveCell(Head(cells).x, Head(cells).y, player_id)},
                     Tail(cells), player_id)

\* add with the lookup's failure ignored: the rows go in under owner 0
add_Unchecked(sender, cells) ==
    /\ alive_cells' =
         InsertCells(alive_cells, cells,
                     IF FindPlayer(sender) = {} THEN 0
                     ELSE (CHOOSE p \in FindPlayer(sender) : TRUE).id)
    /\ last' = Call("add", sender, cells, FindPlayer(sender) # {})
    /\ UNCHANGED <<config, tick_schedule, players, players_seq, ever_connected>>

\* add that replaces the rows of a coordinate it is given
add_Upsert(sender, cells) ==
    IF FindPlayer(sender) = {}
    THEN Abort("add", sender, cells)
    ELSE /\ alive_cells' =
              InsertCells({r \in alive_cells :
                             \A i \in 1..Len(cells) :
                                ~(cells[i].x = r.x /\ cells[i].y = r.y)},
                          cells, (CHOOSE p \in FindPlayer(sender) : TRUE).id)
         /\ last' = Call("add", sender, cells, TRUE)
         /\ UNCHANGED <<config, tick_schedule, players, players_seq, ever_connected>>

add(sender, cells) ==
    IF FindPlayer(sender) = {}
    THEN Abort("add", sender, cells)    \* unwrap() of None
    ELSE /\ alive_cells' =
              InsertCells(alive_cells, cells, (CHOOSE p \in FindPlayer(sender) : TRUE).id)
         /\ last' = Call("add", sender, cells, TRUE)
         /\ UNCHANGED <<config, tick_schedule, players, players_seq, ever_connected>>

\* an update that writes the color to every row
UpdatePlayer_All(t, row) ==
    {[p EXCEPT !.color_hex = row.color_hex] : p \in t}

\* players().identity().update(row): the row of that identity is replaced
UpdatePlayer(t, row) ==
    {p \in t : p.identity # row.identity} \cup {row}

\* set_color that inserts a row for an identity it does not find
set_color_Insert(sender, color_hex) ==
    /\ IF FindPlayer(sender) # {}
       THEN LET p == CHOOSE q \in FindPlayer(sender) : TRUE
            IN /\ players' = UpdatePlayer(players,
                      [id |-> p.id, identity |-> p.identity, color_hex |-> color_hex])
               /\ players_seq' = players_seq
       ELSE /\ players' = players \cup
                  {[id |-> players_seq, identity |-> sender, color_hex |-> color_hex]}
            /\ players_seq' = players_seq + 1
    /\ last' = Call("set_color", sender, color_hex, TRUE)
    /\ UNCHANGED <<config, tick_schedule, alive_cells, ever_connected>>

set_color(sender, color_hex) ==
    /\ IF FindPlayer(sender) # {}
       THEN LET p == CHOOSE q \in FindPlayer(sender) : TRUE
            IN players' = UpdatePlayer(players,
                   [id |-> p.id, identity |-> p.identity, color_hex |-> color_hex])
       ELSE UNCHANGED players
    /\ last' = Call("set_color", sender, color_hex, TRUE)
    /\ UNCHANGED <<config, tick_schedule, players_seq, alive_cells, ever_connected>>

\* config().id().find(0) and tick_schedule().scheduled_id().find(0)
FindConfig == {c \in config : c.id = 0}
FindSchedule == {t \in tick_schedule : t.scheduled_id = 0}

\* update_tick_interval panics on unwrap() of a row that is not there and,
\* where overflow is checked, on a u32 product that leaves the range
update_tick_interval_Panic(interval_ms) ==
    /\ \/ FindConfig = {}
       \/ FindSchedule = {}
       \/ MulOverflows(interval_ms, MICROS_PER_MS)
    /\ Abort("update_tick_interval", NoSender, interval_ms)

\* update_tick_interval to its end; the product wraps where overflow is
\* not checked
update_tick_interval_Run(interval_ms) ==
    /\ FindConfig # {}
    /\ FindSchedule # {}
    /\ config' = (config \ FindConfig) \cup
         {[c EXCEPT !.tick_interval_ms = interval_ms] : c \in FindConfig}
    /\ tick_schedule' = (tick_schedule \ FindSchedule) \cup
         {[t EXCEPT !.scheduled_at = Interval(MulWrapAsI64(interval_ms, MICROS_PER_MS))]
            : t \in FindSchedule}
    /\ last' = Call("update_tick_interval", NoSender, interval_ms, TRUE)
    /\ UNCHANGED <<players, players_seq, alive_cells, ever_connected>>

-----------------------------------------------------------------------------
(* tick. *)

\* `v - 1` and `v + 1` on i32 where overflow is not checked
Dec(v) == IF v = I32_MIN THEN I32_MAX ELSE v - 1
Inc(v) == IF v = I32_MAX THEN I32_MIN ELSE v + 1

\* the range `v - 1..=v + 1`: empty when its start is above its end
Block(v) == IF Dec(v) > Inc(v) THEN {} ELSE {Dec(v), v, Inc(v)}

\* `v - 1` or `v + 1` overflows
AtExtreme(v) == v = I32_MIN \/ v = I32_MAX

\* the first loop panics on a row where overflow is checked
RangePanics(t) == \E r \in t : AtExtreme(r.x) \/ AtExtreme(r.y)

\* the keys of neighbours_by_cell: the 3x3 block of every row
Candidates(t) ==
    UNION {{Cell(x, y) : x \in Block(r.x), y \in Block(r.y)} : r \in t}

\* the rows that push their player_id to the entry of c: c is in the row's
\* block and is not the row's own coordinate
Voters(t, c) ==
    {r \in t : /\ c.x \in Block(r.x)
               /\ c.y \in Block(r.y)
               /\ ~(c.x = r.x /\ c.y = r.y)}

\* neighbors.len()
TotalCount(t, c) == Cardinality(Voters(t, c))

\* counts: player_id -> number of its entries in the vote list of c
Counts(t, c) ==
    [p \in {r.player_id : r \in Voters(t, c)} |->
        Cardinality({r \in Voters(t, c) : r.player_id = p})]

\* a max_by_key whose result is dropped for the default of unwrap_or
MostCommon_Default(counts) == {0}

\* max_by_key over counts.iter(): the iteration order of the map decides
\* among the keys of maximal count; unwrap_or(0) on an empty map
MostCommon(counts) ==
    IF DOMAIN counts = {} THEN {0}
    ELSE {p \in DOMAIN counts : \A q \in DOMAIN counts : counts[q] <= counts[p]}

OutOfBounds(c) == c.x < MIN_X \/ c.x > MAX_X \/ c.y < MIN_Y \/ c.y > MAX_Y

\* the body of the second loop with is_alive read again after the cull
EvalCell_Rebirth(t, snap, c, owner) ==
    LET culled == IF RowsAt(t, c) # {} /\ OutOfBounds(c) THEN DeleteAt(t, c) ELSE t
        is_alive == RowsAt(culled, c) # {}
        total_count == TotalCount(snap, c)
    IN IF total_count = 3
       THEN IF ~is_alive THEN culled \cup {AliveCell(c.x, c.y, owner)} ELSE culled
       ELSE IF total_count # 2 /\ is_alive THEN DeleteAt(culled, c) ELSE culled

\* the body of the second loop with the votes counted in the table as it
\* is when c is reached
EvalCell_LiveCount(t, snap, c, owner) ==
    LET is_alive == RowsAt(t, c) # {}
        culled == IF is_alive /\ OutOfBounds(c) THEN DeleteAt(t, c) ELSE t
        total_count == TotalCount(t, c)
    IN IF total_count = 3
       THEN IF ~is_alive THEN culled \cup {AliveCell(c.x, c.y, owner)} ELSE culled
       ELSE IF total_count # 2 /\ is_alive THEN DeleteAt(culled, c) ELSE culled

\* the body of the second loop where a cell that stays alive with 3 votes
\* is handed to the most common owner
EvalCell_Recolor(t, snap, c, owner) ==
    LET is_alive == RowsAt(t, c) # {}
        culled == IF is_alive /\ OutOfBounds(c) THEN DeleteAt(t, c) ELSE t
        total_count == TotalCount(snap, c)
    IN IF total_count = 3
       THEN IF RowsAt(culled, c) = {} /\ is_alive THEN culled
            ELSE DeleteAt(culled, c) \cup {AliveCell(c.x, c.y, owner)}
       ELSE IF total_count # 2 /\ is_alive THEN DeleteAt(culled, c) ELSE culled

\* the body of the second loop without the `if !is_alive` around the insert
EvalCell_InsertAlways(t, snap, c, owner) ==
    LET is_alive == RowsAt(t, c) # {}
        culled == IF is_alive /\ OutOfBounds(c) THEN DeleteAt(t, c) ELSE t
        total_count == TotalCount(snap, c)
    IN IF total_count = 3
       THEN culled \cup {AliveCell(c.x, c.y, owner)}
       ELSE IF total_count # 2 /\ is_alive THEN DeleteAt(culled, c) ELSE culled

\* the body of the second loop for the key c: t is the table as it is when
\* c is reached, snap the table the vote lists were built from, owner the
\* key max_by_key returns
EvalCell(t, snap, c, owner) ==
    LET is_alive == RowsAt(t, c) # {}
        culled == IF is_alive /\ OutOfBounds(c) THEN DeleteAt(t, c) ELSE t
        total_count == TotalCount(snap, c)
    IN IF total_count = 3
       THEN IF ~is_alive THEN culled \cup {AliveCell(c.x, c.y, owner)} ELSE culled
       ELSE IF total_count # 2 /\ is_alive THEN DeleteAt(culled, c) ELSE culled

\* the order of neighbours_by_cell.keys(): a hash map's; the model takes
\* the keys by (x, y) upwards or downwards
NextKey(todo, downwards) ==
    LET xs == {c.x : c \in todo}
        x == IF downwards THEN CHOOSE v \in xs : \A w \in xs : w <= v
                          ELSE CHOOSE v \in xs : \A w \in xs : v <= w
        ys == {c.y : c \in {d \in todo : d.x = x}}
        y == IF downwards THEN CHOOSE v \in ys : \A w \in ys : w <= v
                          ELSE CHOOSE v \in ys : \A w \in ys : v <= w
    IN Cell(x, y)

\* the second loop from the key after those done: the tables it can end
\* with, one for every way the max_by_key of the keys to come can fall
RECURSIVE EvalAll(_, _, _, _)
EvalAll(t, snap, todo, downwards) ==
    IF todo = {} THEN {t}
    ELSE LET c == NextKey(todo, downwards)
         IN UNION {EvalAll(next, snap, todo \ {c}, downwards) :
                     next \in {EvalCell(t, snap, c, owner) :
                                 owner \in MostCommon(Counts(snap, c))}}

\* the tables a tick that does not panic can leave
TickOutcomes(t) ==
    UNION {EvalAll(t, t, Candidates(t), downwards) : downwards \in BOOLEAN}

tick_Panic ==
    /\ Cardinality(alive_cells) <= MaxTickRows
    /\ RangePanics(alive_cells)
    /\ Abort("tick", NoSender, alive_cells)

tick_Run ==
    /\ Cardinality(alive_cells) <= MaxTickRows
    /\ alive_cells' \in TickOutcomes(alive_cells)
    /\ last' = Call("tick", NoSender, alive_cells, TRUE)
    /\ UNCHANGED <<config, tick_schedule, players, players_seq, ever_connected>>

-----------------------------------------------------------------------------
(* The module as a whole: any identity calls any reducer at any time. *)

Next ==
    \/ \E sender \in Callers : identity_connected(sender)
    \/ \E sender \in Callers : identity_disconnected(sender)
    \/ \E sender \in Callers, cells \in CellLists :
          Cardinality(alive_cells) < MaxRows /\ add(sender, cells)
    \/ \E sender \in Callers, color_hex \in ColorInputs : set_color(sender, color_hex)
    \/ \E interval_ms \in IntervalInputs : update_tick_interval_Panic(interval_ms)
    \/ \E interval_ms \in IntervalInputs : update_tick_interval_Run(interval_ms)
    \/ tick_Panic
    \/ tick_Run

Spec == Init /\ [][Next]_vars

-----------------------------------------------------------------------------
(* tick as a function of the table: every identity has connected, the     *)
(* table is any set of at most MaxInitRows rows, one per coordinate, that  *)
(* add calls of some owners leave on one of the boards, and tick runs from *)
(* there, again and again.                                                 *)

TickPlayers ==
    {[id |-> FIRST_AUTO_INC + k - 1, identity |-> Identities[k],
      color_hex |-> DEFAULT_COLOR] : k \in 1..Len(Identities)}

PlayerIds(n) == {FIRST_AUTO_INC + k - 1 : k \in 1..n}

\* a block inside the field for two owners and a row of it for three, a
\* block across the right edge of the culling rectangle, and the column
\* two before i32::MAX with a cell at i32::MAX
Boards ==
    {[cells |-> {Cell(x, y) : x \in 0..2, y \in 0..1}, owners |-> PlayerIds(2)],
     [cells |-> {Cell(x, 0) : x \in 0..2}, owners |-> PlayerIds(3)],
     [cells |-> {Cell(x, y) : x \in MAX_X..(MAX_X + 1), y \in 0..1},
      owners |-> PlayerIds(2)],
     [cells |-> {Cell(I32_MAX - 2, y) : y \in 0..2} \cup {Cell(I32_MAX, 1)},
      owners |-> PlayerIds(3)]}

\* the tables of at most n rows on the board b, one row per coordinate
RECURSIVE TablesUpTo(_, _)
TablesUpTo(b, n) ==
    IF n = 0 THEN {{}}
    ELSE LET smaller == TablesUpTo(b, n - 1)
         IN smaller \cup
            UNION {{t \cup {AliveCell(c.x, c.y, p)} :
                       p \in b.owners, c \in b.cells \ Coords(t)} : t \in smaller}

TickTables == UNION {TablesUpTo(b, MaxInitRows) : b \in Boards}

InitTick ==
    /\ config = {[id |-> 0, tick_interval_ms |-> ToU32(DEFAULT_TICK_INTERVAL_MS)]}
    /\ tick_schedule =
         {[scheduled_id |-> 0,
           scheduled_at |-> Interval(MulWrapAsI64(ToU32(DEFAULT_TICK_INTERVAL_MS),
                                                  MICROS_PER_MS))]}
    /\ players = TickPlayers
    /\ players_seq = FIRST_AUTO_INC + Len(Identities)
    /\ ever_connected = {Identities[k] : k \in 1..Len(Identities)}
    /\ alive_cells \in TickTables
    /\ last = Call("add", Identities[1], <<>>, TRUE)

NextTick ==
    \/ tick_Panic
    \/ tick_Run

SpecTick == InitTick /\ [][NextTick]_vars

-----------------------------------------------------------------------------
(* The grid reducers with enough cells for births: connect, disconnect,    *)
(* add, set_color and tick from init, where add places cells on a corner   *)
(* of three coordinates and on one at i32::MAX.                            *)

GridCoords == {Cell(0, 0), Cell(1, 0), Cell(0, 1), Cell(I32_MAX, 0)}

\* the payloads of add: nothing, the cell in the corner, the cell at
\* i32::MAX, the corner's two arms, or the corner of three at once
GridCorner == <<Cell(0, 0), Cell(1, 0), Cell(0, 1)>>
GridArms == <<Cell(1, 0), Cell(0, 1)>>
GridLists == {<<>>, <<Cell(0, 0)>>, <<Cell(I32_MAX, 0)>>, GridArms, GridCorner}

GridColors == {"#00FF00"}

NextGrid ==
    \/ \E sender \in Callers : identity_connected(sender)
    \/ \E sender \in Callers : identity_disconnected(sender)
    \/ \E sender \in Callers, cells \in GridLists :
          Cardinality(alive_cells) < MaxRows /\ add(sender, cells)
    \/ \E sender \in Callers, color_hex \in GridColors : set_color(sender, color_hex)
    \/ tick_Panic
    \/ tick_Run

SpecGrid == Init /\ [][NextGrid]_vars

-----------------------------------------------------------------------------
(* The Game of Life the claims speak of, on the integer grid. *)

\* d is one of the 8 coordinates around c
Adjacent(c, d) ==
    /\ ~(c.x = d.x /\ c.y = d.y)
    /\ \/ d.x = c.x
       \/ c.x < I32_MAX /\ d.x = c.x + 1
       \/ c.x > I32_MIN /\ d.x = c.x - 1
    /\ \/ d.y = c.y
       \/ c.y < I32_MAX /\ d.y = c.y + 1
       \/ c.y > I32_MIN /\ d.y = c.y - 1

\* the rows of t on the coordinates around c
NeighbourRows(t, c) == {r \in t : Adjacent(c, Cell(r.x, r.y))}

\* the number of coordinates around c that are alive in t
AliveAround(t, c) == Cardinality(Coords(NeighbourRows(t, c)))

\* the 3x3 block of a coordinate that is at no end of i32
Around(c) == {Cell(c.x + dx, c.y + dy) : dx \in -1..1, dy \in -1..1}

InsideCullRect(c) == c.x >= -5 /\ c.x <= 197 /\ c.y >= -5 /\ c.y <= 113

OneRowPerCoordinate(t) == \A r, q \in t : (r.x = q.x /\ r.y = q.y) => r = q

NoExtreme(t) == \A r \in t : r.x \notin {I32_MIN, I32_MAX} /\ r.y \notin {I32_MIN, I32_MAX}

\* the last reducer call was a tick, and it read the table last.arg
Ticked == last.op = "tick"

BlinkerFlat == {Cell(0, 0), Cell(1, 0), Cell(2, 0)}
BlinkerUpright == {Cell(1, -1), Cell(1, 0), Cell(1, 1)}

-----------------------------------------------------------------------------
(* C1: from a table with one row per coordinate and no coordinate at an    *)
(* end of i32, a tick succeeds and leaves alive exactly the coordinates    *)
(* that were dead with 3 alive neighbours or alive with 2 or 3 alive       *)
(* neighbours inside [-5,197] x [-5,113]; the empty table stays empty and  *)
(* the blinker turns upright and flat again.                               *)
C1_TickRule ==
    (Ticked /\ OneRowPerCoordinate(last.arg) /\ NoExtreme(last.arg)) =>
        /\ last.ok
        /\ \A c \in Coords(alive_cells) \cup UNION {Around(d) : d \in Coords(last.arg)} :
              LET was == c \in Coords(last.arg)
                  n == AliveAround(last.arg, c)
              IN c \in Coords(alive_cells) <=>
                    \/ ~was /\ n = 3
                    \/ was /\ n \in {2, 3} /\ InsideCullRect(c)
        /\ last.arg = {} => alive_cells = {}
        /\ Coords(last.arg) = BlinkerFlat => Coords(alive_cells) = BlinkerUpright
        /\ Coords(last.arg) = BlinkerUpright => Coords(alive_cells) = BlinkerFlat

\* the second tick of the blinker has brought the flat blinker back
C1_Witness ==
    /\ Ticked /\ last.ok
    /\ Coords(last.arg) = BlinkerUpright
    /\ Coords(alive_cells) = BlinkerFlat

(* C2: a coordinate that is alive when a tick starts and lies outside      *)
(* [-5,197] x [-5,113] is not alive after the tick, whatever its           *)
(* neighbours.                                                             *)
C2_CullPrecedence ==
    Ticked => \A r \in last.arg : ~InsideCullRect(r) => RowsAt(alive_cells, r) = {}

(* C3: the owner of a cell a tick gives birth to has the most rows among   *)
(* the rows around the cell when the tick starts; it is the owner of one   *)
(* of them and is not the default 0.                                       *)
C3_MajorityOwner ==
    (Ticked /\ last.ok) =>
        \A r \in alive_cells :
            RowsAt(last.arg, r) = {} =>
                LET around == NeighbourRows(last.arg, r)
                    votes(p) == Cardinality({q \in around : q.player_id = p})
                IN /\ r.player_id # 0
                   /\ r.player_id \in {q.player_id : q \in around}
                   /\ \A q \in around : votes(q.player_id) <= votes(r.player_id)

(* C4: a tick is a function of the table: every run from the table the     *)
(* last tick read leaves the table that tick left.                         *)
C4_Deterministic ==
    (Ticked /\ last.ok) => TickOutcomes(last.arg) = {alive_cells}

-----------------------------------------------------------------------------
(* The claims about the other reducers.  In a step, last' is the call the  *)
(* step made and the unprimed tables are those it started from.            *)

Known(sender) == FindPlayer(sender) # {}

Elements(cells) == {cells[i] : i \in 1..Len(cells)}

(* C5: add by an identity with no Player row fails and changes no table,   *)
(* whatever the cells payload.                                             *)
C5_AddUnknownRejected ==
    [][(last'.op = "add" /\ ~Known(last'.sender)) =>
          (~last'.ok /\ UNCHANGED tables)]_vars

\* an unknown identity's add of a non-empty payload has failed while cells
\* and players were there to change
C5_Witness ==
    /\ last.op = "add" /\ ~last.ok /\ ~Known(last.sender)
    /\ Len(last.arg) > 0
    /\ alive_cells # {} /\ players # {}

(* C6: set_color by an identity with no Player row is reported as failed   *)
(* and changes no table.                                                   *)
C6_SetColorUnknownFails ==
    [][(last'.op = "set_color" /\ ~Known(last'.sender)) =>
          (~last'.ok /\ UNCHANGED tables)]_vars

(* C6 as amended: set_color by an identity with no Player row returns      *)
(* normally, as a call that did nothing, and changes no table.             *)
C6_SetColorUnknownNoOp ==
    [][(last'.op = "set_color" /\ ~Known(last'.sender)) =>
          (last'.ok /\ UNCHANGED tables)]_vars

\* an unknown identity's set_color has returned beside another's row
C6_Witness ==
    /\ last.op = "set_color" /\ last.ok /\ ~Known(last.sender)
    /\ players # {}

(* C7: set_color by a known player changes the color_hex of that player's  *)
(* row and nothing else: not its id or identity, no other Player row, not  *)
(* the number of Player rows, no other table.                              *)
C7_ColorIsolation ==
    [][(last'.op = "set_color" /\ Known(last'.sender)) =>
          /\ \E p \in players :
                /\ p.identity = last'.sender
                /\ players' = (players \ {p}) \cup {[p EXCEPT !.color_hex = last'.arg]}
          /\ Cardinality(players') = Cardinality(players)
          /\ UNCHANGED <<config, tick_schedule, alive_cells>>]_vars

\* a player has set a color and another player's row still has the default
C7_Witness ==
    /\ last.op = "set_color" /\ last.ok
    /\ \E p, q \in players :
          /\ p.identity = last.sender /\ p.color_hex = "#00FF00"
          /\ q.identity # last.sender /\ q.color_hex = "#FFFFFF"

(* C8: there is exactly one Player row per identity that has connected,    *)
(* and ids are unique; the first connect of an identity adds its row with  *)
(* color #FFFFFF and an id no row has, a later connect changes no table,   *)
(* and disconnect changes no table.                                        *)
OneRowPerConnected ==
    /\ \A i \in ever_connected : Cardinality(FindPlayer(i)) = 1
    /\ \A p \in players : p.identity \in ever_connected
    /\ \A p, q \in players : p.id = q.id => p = q

C8_PlayerLifecycle ==
    [][/\ OneRowPerConnected'
       /\ (last'.op = "identity_connected" /\ ~Known(last'.sender)) =>
             /\ players \subseteq players'
             /\ Cardinality(players' \ players) = 1
             /\ \A r \in players' \ players :
                   /\ r.identity = last'.sender
                   /\ r.color_hex = "#FFFFFF"
                   /\ \A p \in players : p.id # r.id
             /\ UNCHANGED <<config, tick_schedule, alive_cells>>
       /\ (last'.op = "identity_connected" /\ Known(last'.sender)) => UNCHANGED tables
       /\ last'.op = "identity_disconnected" => UNCHANGED tables]_vars

\* an identity that had set a color has connected again, beside another
C8_Witness ==
    /\ last.op = "identity_connected"
    /\ \E p \in players : p.identity = last.sender /\ p.color_hex = "#00FF00"
    /\ Cardinality(players) = 2

(* C9: there is exactly one Config row, with id 0, and exactly one trigger *)
(* row, with scheduled_id 0, and the trigger's period in microseconds is   *)
(* 1000 times Config.tick_interval_ms.                                     *)
C9_ConfigTriggerInStep ==
    /\ Cardinality(config) = 1
    /\ Cardinality(tick_schedule) = 1
    /\ \A c \in config, s \in tick_schedule :
          /\ c.id = 0
          /\ s.scheduled_id = 0
          /\ s.scheduled_at = Interval(MulExact(c.tick_interval_ms, 1000))

(* C10: a successful add by the player with id p leaves alive_cells as it  *)
(* was plus the row (x, y, p) of every element of cells, whatever the      *)
(* coordinates and whatever rows they already have, and changes no other   *)
(* table.                                                                  *)
C10_AddInsertsEach ==
    [][(last'.op = "add" /\ last'.ok) =>
          /\ \E p \in FindPlayer(last'.sender) :
                alive_cells' =
                   alive_cells \cup {AliveCell(c.x, c.y, p.id) : c \in Elements(last'.arg)}
          /\ UNCHANGED <<config, tick_schedule, players, players_seq>>]_vars

\* the add put a row outside the culling rectangle and a row on a
\* coordinate that another player's row holds
C10_Witness ==
    /\ last.op = "add" /\ last.ok
    /\ \E c \in Elements(last.arg) : ~InsideCullRect(c) /\ RowsAt(alive_cells, c) # {}
    /\ \E c \in Elements(last.arg) : Cardinality(RowsAt(alive_cells, c)) > 1

-----------------------------------------------------------------------------
(* The claims about the grid as add and tick leave it. *)

(* C11: in every reachable state alive_cells has at most one row per       *)
(* (x, y) coordinate.                                                      *)
C11_UniqueCoordinates == OneRowPerCoordinate(alive_cells)

(* C12: in a tick, the vote list of every candidate coordinate has at most *)
(* 8 entries, and as many entries as there are alive coordinates around    *)
(* the candidate when the tick starts.                                     *)
C12_VoteListLength ==
    (Ticked /\ last.ok) =>
        \A c \in Candidates(last.arg) :
            /\ TotalCount(last.arg, c) <= 8
            /\ TotalCount(last.arg, c) = AliveAround(last.arg, c)

(* C13: a tick runs to its end from every table add can build, every row   *)
(* of the table is a candidate of the tick, and a row outside              *)
(* [-5,197] x [-5,113], or one that has neither 2 nor 3 votes, is gone     *)
(* after the tick, also where x or y is i32::MIN or i32::MAX.              *)
C13_EveryCellEvaluated ==
    Ticked =>
        /\ last.ok
        /\ \A r \in last.arg :
              /\ Cell(r.x, r.y) \in Candidates(last.arg)
              /\ (~InsideCullRect(r) \/ TotalCount(last.arg, r) \notin {2, 3})
                    => RowsAt(alive_cells, r) = {}

\* the coordinates alive after a tick that decides every candidate from
\* the table snap alone: is_alive and the votes as they are in snap
SnapshotAlive(snap) ==
    LET dies(c) == \/ OutOfBounds(c)
                   \/ TotalCount(snap, c) \notin {2, 3}
        born == {c \in Candidates(snap) \ Coords(snap) : TotalCount(snap, c) = 3}
        dead == {c \in Candidates(snap) \cap Coords(snap) : dies(c)}
    IN (Coords(snap) \ dead) \cup born

\* in the second loop from the table t on, every key still to come finds
\* in the live table the is_alive it has in snap
RECURSIVE ReadsAgree(_, _, _, _)
ReadsAgree(t, snap, todo, downwards) ==
    \/ todo = {}
    \/ LET c == NextKey(todo, downwards)
       IN /\ (RowsAt(t, c) # {}) <=> (RowsAt(snap, c) # {})
          /\ \A next \in {EvalCell(t, snap, c, owner) :
                             owner \in MostCommon(Counts(snap, c))} :
                ReadsAgree(next, snap, todo \ {c}, downwards)

(* C14: in a tick every candidate's is_alive, read from the table while    *)
(* the tick changes it, is the one of the table at the start of the tick,  *)
(* the decision of a candidate changes rows of its own coordinate only,    *)
(* the coordinates alive afterwards are those decided from that table      *)
(* alone, and they are the same for every order of the candidates.         *)
C14_SingleSnapshot ==
    (Ticked /\ last.ok) =>
        /\ \A downwards \in BOOLEAN :
              ReadsAgree(last.arg, last.arg, Candidates(last.arg), downwards)
        /\ \A c \in Candidates(last.arg) :
            \A owner \in MostCommon(Counts(last.arg, c)) :
              DeleteAt(EvalCell(last.arg, last.arg, c, owner), c) = DeleteAt(last.arg, c)
        /\ \A t \in TickOutcomes(last.arg) : Coords(t) = SnapshotAlive(last.arg)
        /\ Coords(alive_cells) = SnapshotAlive(last.arg)

\* the tick gave birth to a cell next to one it removed
C14_Witness ==
    /\ Ticked /\ last.ok
    /\ \E r \in alive_cells, q \in last.arg :
          /\ RowsAt(last.arg, r) = {}
          /\ RowsAt(alive_cells, q) = {}
          /\ Adjacent(Cell(r.x, r.y), Cell(q.x, q.y))

(* C15: in every reachable state the player_id of every row of            *)
(* alive_cells is the id of a row of players.                              *)
C15_OwnersExist ==
    \A r \in alive_cells : \E p \in players : p.id = r.player_id

\* a tick has given birth to a cell that two players' rows voted for,
\* after a set_color changed a row of players
C15_Witness ==
    /\ Ticked /\ last.ok
    /\ \E r \in alive_cells :
          /\ RowsAt(last.arg, r) = {}
          /\ Cardinality(DOMAIN Counts(last.arg, r)) > 1
    /\ \E p \in players : p.color_hex # DEFAULT_COLOR

\* v and the values next to it that i32 has
Beside(v) ==
    {v} \cup (IF v > I32_MIN THEN {v - 1} ELSE {}) \cup (IF v < I32_MAX THEN {v + 1} ELSE {})

\* the coordinates around the rows of t, and theirs
NearRows(t) == UNION {{Cell(x, y) : x \in Beside(r.x), y \in Beside(r.y)} : r \in t}

(* C16: a tick gives birth to every dead coordinate outside                *)
(* [-5,197] x [-5,113] that has exactly 3 alive neighbours, and removes    *)
(* every cell outside the rectangle that is alive when it starts, so that  *)
(* a cell born outside is alive for one generation.                        *)
C16_BirthsUnclipped ==
    [][(last'.op = "tick") =>
          /\ \A c \in NearRows(alive_cells) :
                (/\ ~InsideCullRect(c)
                 /\ RowsAt(alive_cells, c) = {}
                 /\ AliveAround(alive_cells, c) = 3) => RowsAt(alive_cells', c) # {}
          /\ \A r \in alive_cells :
                ~InsideCullRect(r) => RowsAt(alive_cells', r) = {}]_vars

(* C17: a tick leaves players, config and tick_schedule as they are, and   *)
(* a coordinate that is alive before and after it keeps its rows, owners   *)
(* included.                                                               *)
C17_TickFrame ==
    [][(last'.op = "tick") =>
          /\ UNCHANGED <<config, tick_schedule, players, players_seq>>
          /\ \A c \in Coords(alive_cells) \cap Coords(alive_cells') :
                RowsAt(alive_cells', c) = RowsAt(alive_cells, c)]_vars

\* a cell has survived a tick with 3 votes, none of them its owner's, in
\* a tick that also gave birth to a cell
C17_Witness ==
    /\ Ticked /\ last.ok
    /\ \E r \in alive_cells \cap last.arg :
          /\ TotalCount(last.arg, r) = 3
          /\ r.player_id \notin DOMAIN Counts(last.arg, r)
    /\ \E r \in alive_cells : RowsAt(last.arg, r) = {}

(* C18: a tick that starts with at most one row per coordinate ends with   *)
(* at most one row per coordinate, and a step that brings a second row to  *)
(* a coordinate is an add.                                                 *)
C18_TickNoDuplicate ==
    [][/\ (last'.op = "tick" /\ OneRowPerCoordinate(alive_cells))
            => OneRowPerCoordinate(alive_cells')
       /\ (OneRowPerCoordinate(alive_cells) /\ ~OneRowPerCoordinate(alive_cells'))
            => last'.op = "add"]_vars

\* a tick from one row per coordinate has kept alive a cell with 3 votes,
\* none of them its owner's, among them the vote of a cell born earlier
C18_Witness ==
    /\ Ticked /\ last.ok /\ OneRowPerCoordinate(last.arg)
    /\ \E r \in alive_cells \cap last.arg :
          /\ TotalCount(last.arg, r) = 3
          /\ r.player_id \notin DOMAIN Counts(last.arg, r)
    /\ \E r \in last.arg : Cell(r.x, r.y) \notin GridCoords

====
